---- MODULE Spec2Model ----
(***************************************************************************)
(* Adaptive RAG workflow of kobe4cn/python_study.                           *)
(*                                                                         *)
(*   graph layer    src/graph/func/graph_func.py   nodes and routers       *)
(*                  src/graph/state/graph_state.py channels and reducers   *)
(*                  src/graph/node/graph_main.py   edges, checkpointer,    *)
(*                                                 GraphMain.stream        *)
(*   adapter layer  src/api/routers/chat.py        process_graph_events    *)
(*                                                                         *)
(* A run is started by one of three callers:                               *)
(*   "main"   GraphMain.stream(user_inputs, config), as the __main__ block *)
(*            of graph_main.py does;                                       *)
(*   "graph"  the compiled graph streamed with a caller-built input state  *)
(*            (any max_retries), the interface the node functions and      *)
(*            GraphState document;                                         *)
(*   "api"    process_graph_events.  Its call graph_main.stream(query)     *)
(*            omits the config parameter that GraphMain.stream declares,   *)
(*            so with GraphMain as declared the call raises TypeError      *)
(*            (StreamCallTypeError).  The loop body of the adapter is      *)
(*            exercised through StreamCallOneArg, the one-argument stream  *)
(*            interface that the docstrings of GraphMain document.         *)
(*                                                                         *)
(*   provider registry  src/llm/providers/registry.py  LLMRegistry, whose  *)
(*            calls are the steps of RegistrySpec.                         *)
(***************************************************************************)
EXTENDS Integers, Sequences, FiniteSets, TLC

\* ------------------------------------------------------------------ bounds
MaxRetriesBound == 3    \* max_retries values of caller-built input states
MaxGens == 4            \* cap on generate executions of one run (never reached)
MaxInstances == 3       \* cap on the provider instances constructed

\* ------------------------------------------------------- program constants
StreamMaxRetries == 3   \* graph_main.py:266
ReqDefaultRetries == 3  \* chat.py:90
ReqMinRetries == 1      \* chat.py:91
ReqMaxRetries == 5      \* chat.py:92

\* Texts are sequences of characters.
Generations == { <<"a">>, <<"a", "<">>, <<"b">> }

\* Documents are identified by numbers; WebDoc is the Document built by
\* tavily_search (udf_tools.py:285-296).
WebDoc == 0
RetrieverResults == { <<>>, <<1>>, <<1, 2, 3>> }

\* metadata["source"] of a document: tavily_search gives its Document the
\* source "tavily_search" (udf_tools.py:289); the documents of the retriever
\* carry the source the store recorded.
MetadataSource(d) == IF d = WebDoc THEN "tavily_search" ELSE "store"

\* What a structured language-model call can produce:
\*   "yes"/"no"  JSON with the key (binary_score) set to that value
\*   "nokey"     JSON object without the key
\*   "badjson"   text that json.loads rejects
\*   "nonstr"    JSON whose value for the key is not a string
\*   "raise"     the call raises (transport failure, timeout)
GraderResponses == {"yes", "no", "nokey", "badjson", "nonstr", "raise"}
DocGraderResponses == {"yes", "no", "badjson", "raise"}
\* The router answers with the key datasource; "WebSearch" is the value
\* websearch in another letter case.
RouterResponses ==
    {"websearch", "WebSearch", "vectorstore", "nokey", "badjson", "nonstr", "raise"}

VARIABLES
    checkpoint,          \* checkpointer: last checkpointed state of the thread
    history,             \* checkpointer: the thread's checkpoints in the order
                         \* written, each as step, loop_step, writing node
                         \* and the run that wrote it
    caller,              \* "none", "main", "graph" or "api"
    node,                \* next node of the current run, or its outcome
    st,                  \* channel values of the current run
    hist,                \* one record per generate execution of this run:
                         \* the hallucination grade, the router's label and
                         \* the loop_step value that generate returned
    loop_step0,          \* loop_step when the current run began
    failed,              \* the node whose exception ended the run, or
                         \* "checkpoint" for the checkpointer's, or ""
    router_resp,         \* route_question's model response, until the first
                         \* node of the run has run; "" otherwise
    doc_resps,           \* grade_documents' model responses, one per document,
                         \* until the next node has run; <<>> otherwise
    gen_resps,           \* grade_generation's two model responses, until
                         \* the snapshot of that generation has been taken
    pending,             \* a snapshot was emitted and is not yet consumed
    held_docs,           \* what the snapshot that the consumer took last
                         \* shows as documents now (<<>> when it took none):
                         \* the snapshot refers to the list object of the
                         \* channel, it holds no copy
    req,                 \* the ChatRequest of the current adapter call
    events,              \* events yielded by process_graph_events
    current_generation,  \* chat.py:203
    documents_sent,      \* chat.py:204
    apc,                 \* position of process_graph_events
    suspended,           \* process_graph_events is suspended at a yield
    providers,           \* LLMRegistry._providers: name -> provider class
    instances,           \* LLMRegistry._instances: cache key -> instance
    issued,              \* number of provider instances constructed so far
    memo,                \* per name and kwargs: the instance that the first
                         \* caching create since the last clear_cache returned
    last                 \* the last call of LLMRegistry and its outcome

vars == <<checkpoint, history, caller, node, st, hist, loop_step0, failed, router_resp,
          doc_resps, gen_resps, pending, held_docs,
          req, events, current_generation, documents_sent, apc, suspended,
          providers, instances, issued, memo, last>>

graphVars ==
    <<checkpoint, history, node, st, hist, loop_step0, failed, router_resp,
      doc_resps, gen_resps, held_docs>>
adapterVars == <<req, events, current_generation, documents_sent, apc>>
regVars == <<providers, instances, issued, memo, last>>

\* ------------------------------------------------------------ run state

\* GraphState: loop_step is a reducer channel (operator.add) and therefore
\* starts at int() = 0; the other channels are absent until written.
\* No response of grade_generation is on record.
NoResps == [h |-> "", a |-> ""]

EmptyState ==
    [ documents |-> <<>>, generation |-> <<>>, web_search |-> "",
      max_retries |-> 0, loop_step |-> 0, keys |-> {} ]

\* Annotated[int, operator.add]: the channel adds the written value.
MergeLoopStep(old, written) == old + written

\* The input of a run writes question, max_retries and retriever; every
\* other channel keeps the value of the thread's last checkpoint.
ApplyInput(s, m) == [s EXCEPT !.max_retries = m, !.keys = @ \cup {"max_retries"}]

\* retrieve returned a whole state in which only documents is filled.
RetrieveWriteWhole(s, docs) ==
    [s EXCEPT !.documents = docs, !.generation = <<>>,
              !.keys = @ \cup {"documents"}]

\* retrieve: {"documents": retriever.invoke(question)}
RetrieveWrite(s, docs) ==
    [s EXCEPT !.documents = docs, !.keys = @ \cup {"documents"}]

\* grade_documents, one document: is it appended to filtered_documents?
\* llm_json_response returns the message object (qwen.py:322), and
\* json.loads(result_str) of a message object raises TypeError, which the
\* handler at 281-284 answers by keeping the document; a call that raises
\* ends in the same handler.
\* grade_documents dropped a document whose grading failed.
DocKeptFailClosed(resp) ==
    CASE resp \in {"raise", "badjson"} -> FALSE
      [] OTHER -> TRUE

DocKept(resp) ==
    CASE resp = "raise" -> TRUE
      [] OTHER -> TRUE

RECURSIVE FilterDocs(_, _)
FilterDocs(docs, resps) ==
    IF docs = <<>> THEN <<>>
    ELSE IF DocKept(Head(resps))
         THEN <<Head(docs)>> \o FilterDocs(Tail(docs), Tail(resps))
         ELSE FilterDocs(Tail(docs), Tail(resps))

\* grade_documents appended the kept documents to the list it received.
GradeDocumentsWriteAppend(s, resps) ==
    LET filtered == FilterDocs(s.documents, resps)
    IN [s EXCEPT !.documents = s.documents \o filtered,
                 !.web_search = IF Len(filtered) = 0 THEN "yes" ELSE "no",
                 !.keys = @ \cup {"web_search"}]

\* grade_documents returned the documents only, leaving web_search as it
\* was.
GradeDocumentsWriteKeepsFlag(s, resps) ==
    [s EXCEPT !.documents = FilterDocs(s.documents, resps)]

GradeDocumentsWrite(s, resps) ==
    LET filtered == FilterDocs(s.documents, resps)
    IN [s EXCEPT !.documents = filtered,
                 !.web_search = IF Len(filtered) = 0 THEN "yes" ELSE "no",
                 !.keys = @ \cup {"web_search"}]

\* generate: {"generation": answer, "loop_step": loop_step + 1}, merged by
\* the channels: generation replaced, loop_step added to its old value.
GenerateWrite(s, text) ==
    [s EXCEPT !.generation = text,
              !.loop_step = MergeLoopStep(s.loop_step, s.loop_step + 1),
              !.keys = @ \cup {"generation"}]

\* web_search appends to the list that state.get("documents", []) gave it:
\* the list object of the channel when documents is present, which is the
\* object that the snapshot taken before the node ran refers to; a new list
\* when documents is absent.  held is what that snapshot shows.
WebSearchAlias(s, held) ==
    IF "documents" \in s.keys THEN Append(held, WebDoc) ELSE held

\* web_search: documents = state.get("documents", []); append the Document.
WebSearchWrite(s) ==
    [s EXCEPT !.documents = Append(s.documents, WebDoc),
              !.keys = @ \cup {"documents"}]

\* A checkpoint left on the thread by an earlier, finished run of
\* GraphMain.stream: retrieve found one document, grade_documents kept
\* it, and the first generation was useful.
EarlierRun ==
    GenerateWrite(
        GradeDocumentsWrite(
            RetrieveWrite(ApplyInput(EmptyState, StreamMaxRetries), <<1>>),
            <<"yes">>),
        <<"a">>)

\* The checkpoints of that earlier run, one per superstep.
EarlierHistory ==
    << [step |-> 1, loop_step |-> 0, writer |-> "START", run |-> "earlier"],
       [step |-> 2, loop_step |-> 0, writer |-> "retrieve", run |-> "earlier"],
       [step |-> 3, loop_step |-> 0, writer |-> "grade_documents", run |-> "earlier"],
       [step |-> 4, loop_step |-> 1, writer |-> "generate", run |-> "earlier"] >>

\* The checkpointer writes the state s that the node writer produced.
PutCheckpoint(h, s, writer) ==
    Append(h, [step |-> Len(h) + 1, loop_step |-> s.loop_step, writer |-> writer,
               run |-> "this"])

RECURSIVE Reverse(_)
Reverse(q) == IF q = <<>> THEN <<>> ELSE Append(Reverse(Tail(q)), Head(q))

\* get_state_history: the checkpointer lists a thread's checkpoints from
\* the newest to the oldest, and GraphMain returns them as they come.
GetStateHistory(h) == Reverse(h)

\* ------------------------------------------------------------- routers

\* str.lower on the values a datasource or a binary_score takes here.
Lower(v) ==
    CASE v = "WebSearch" -> "websearch"
      [] OTHER -> v

\* route_question compared the datasource as it was written.
RouteQuestionLabelExact(resp) ==
    IF resp = "websearch" THEN "websearch" ELSE "vectorstore"

\* route_question: json.loads(result_str.content), then
\* datasource.lower() == "websearch"; every exception is answered with
\* "vectorstore" (420-424), a missing key by the default "vectorstore".
RouteQuestionLabel(resp) ==
    CASE resp \in {"raise", "badjson", "nonstr", "nokey"} -> "vectorstore"
      [] Lower(resp) = "websearch" -> "websearch"
      [] OTHER -> "vectorstore"

DecideToGenerateAlways(s) == "generate"

DecideToGenerateInverted(s) ==
    IF s.web_search = "yes" THEN "generate" ELSE "websearch"

DecideToGenerate(s) ==
    IF s.web_search = "yes" THEN "websearch" ELSE "generate"

\* grade_generation_v_documents_and_question.  The inner handlers catch
\* JSONDecodeError only; an exception of another kind (the call raises, or
\* .lower() of a non-string) reaches the handler at 594-597.
GradeGenerationNoBudget(h, a, loop_step, max_retries) ==
    IF h \in {"raise", "nonstr"} THEN "max retries"
    ELSE IF Lower(h) = "yes"
         THEN IF a \in {"raise", "nonstr"} THEN "max retries"
              ELSE IF Lower(a) = "yes" THEN "useful"
              ELSE "not useful"
         ELSE "not supported"

\* grade_generation compared loop_step < max_retries.
GradeGenerationStrict(h, a, loop_step, max_retries) ==
    IF h \in {"raise", "nonstr"} THEN "max retries"
    ELSE IF Lower(h) = "yes"
         THEN IF a \in {"raise", "nonstr"} THEN "max retries"
              ELSE IF Lower(a) = "yes" THEN "useful"
              ELSE IF loop_step < max_retries THEN "not useful"
              ELSE "max retries"
         ELSE IF loop_step < max_retries THEN "not supported"
         ELSE "max retries"

GradeGeneration(h, a, loop_step, max_retries) ==
    IF h \in {"raise", "nonstr"} THEN "max retries"
    ELSE IF Lower(h) = "yes"
         THEN IF a \in {"raise", "nonstr"} THEN "max retries"
              ELSE IF Lower(a) = "yes" THEN "useful"
              ELSE IF loop_step <= max_retries THEN "not useful"
              ELSE "max retries"
         ELSE IF loop_step <= max_retries THEN "not supported"
         ELSE "max retries"

\* The value of hallucination_grade after lines 542-551, "exc" when an
\* exception other than JSONDecodeError left the block.
HallucinationGrade(h) ==
    CASE Lower(h) = "yes" -> "yes"
      [] h \in {"no", "nokey", "badjson"} -> "no"
      [] OTHER -> "exc"

\* _set_graph: the conditional edges out of generate.
\* The label "max retries" had no terminal edge: the run stalls on it.
AfterGenerateNoTerminalEdge(label) ==
    CASE label = "useful" -> "END"
      [] label = "not supported" -> "generate"
      [] label = "max retries" -> "idle"
      [] label = "not useful" -> "websearch"

AfterGenerateSearchAtBudget(label) ==
    CASE label = "useful" -> "END"
      [] label = "not supported" -> "generate"
      [] label = "max retries" -> "websearch"
      [] label = "not useful" -> "websearch"

\* The retry edge led back to retrieve.
AfterGenerateRetrieveAgain(label) ==
    CASE label = "useful" -> "END"
      [] label = "not supported" -> "retrieve"
      [] label = "max retries" -> "END"
      [] label = "not useful" -> "websearch"

AfterGenerate(label) ==
    CASE label = "useful" -> "END"
      [] label = "not supported" -> "generate"
      [] label = "max retries" -> "END"
      [] label = "not useful" -> "websearch"

\* ------------------------------------------------------------- adapter

\* html.escape on one character.
EscapeChar(c) ==
    CASE c = "<" -> <<"&", "l", "t", ";">>
      [] c = ">" -> <<"&", "g", "t", ";">>
      [] c = "&" -> <<"&", "a", "m", "p", ";">>
      [] OTHER -> <<c>>

RECURSIVE sanitize_html(_)
sanitize_html(text) ==
    IF text = <<>> THEN <<>>
    ELSE EscapeChar(Head(text)) \o sanitize_html(Tail(text))

\* generation_text[len(current_generation):]
SliceFrom(text, n) ==
    IF n >= Len(text) THEN <<>> ELSE SubSeq(text, n + 1, Len(text))

Event(kind, n, flag, text) ==
    [kind |-> kind, n |-> n, flag |-> flag, text |-> text]

NoReq ==
    [query |-> <<>>, max_retries |-> 0,
     include_sources |-> FALSE, include_workflow |-> FALSE]

\* The query of a request as it arrives: empty, one blank, the character
\* "<", or text containing "<script" (written as one symbol).
Queries == { <<>>, <<" ">>, <<"<">>, <<"<script">> }

MinQueryLength == 1     \* chat.py:77

RECURSIVE AllBlank(_)
AllBlank(v) == v = <<>> \/ (Head(v) = " " /\ AllBlank(Tail(v)))

\* ' '.join(v.split()): blanks at either end are dropped and every run of
\* blanks inside becomes one blank.
RECURSIVE JoinSplit(_, _)
JoinSplit(v, started) ==
    IF v = <<>> THEN <<>>
    ELSE IF Head(v) = " "
         THEN IF AllBlank(Tail(v)) THEN <<>>
              ELSE IF started /\ Head(Tail(v)) # " "
                   THEN <<" ">> \o JoinSplit(Tail(v), TRUE)
                   ELSE JoinSplit(Tail(v), started)
         ELSE <<Head(v)>> \o JoinSplit(Tail(v), TRUE)

\* validate_query: the value the request carries after validation.
ValidateQuery(v) == JoinSplit(v, FALSE)

\* ChatRequest accepts the query: min_length is checked on the value as it
\* arrives, then validate_query runs and raises only on a dangerous
\* pattern.
QueryAccepted(v) ==
    /\ Len(v) >= MinQueryLength
    /\ \A k \in DOMAIN ValidateQuery(v) : ValidateQuery(v)[k] # "<script"

\* max_retries of a request: the default, the greatest value the
\* validation admits, and a value below the least.
Requests ==
    [ query : Queries,
      max_retries : {ReqMinRetries - 1, ReqDefaultRetries, ReqMaxRetries},
      include_sources : BOOLEAN, include_workflow : BOOLEAN ]

\* ChatRequest accepts the request: the query passes, and max_retries is
\* within ge=1, le=5.
RequestAccepted(r) ==
    /\ QueryAccepted(r.query)
    /\ r.max_retries >= ReqMinRetries
    /\ r.max_retries <= ReqMaxRetries

\* The handler at chat.py:269-276 yields one error event.
ErrorEventsNone == <<>>

ErrorEvents == <<Event("error", 0, "", <<>>)>>

\* One iteration of the loop at chat.py:206-259 on snapshot s.  The three
\* blocks run in this order; each yields at most one event.
WorkflowEvents(s) ==
    IF req.include_workflow
    THEN <<Event("workflow_step", s.loop_step, s.web_search, <<>>)>>
    ELSE <<>>

\* documents block: the elements of documents are Document objects, and
\* len(doc) / doc[:200] of a Document raise TypeError.
DocumentsBlockRaises(s) ==
    /\ req.include_sources
    /\ "documents" \in s.keys
    /\ ~documents_sent
    /\ s.documents # <<>>

ChunkDue(s) ==
    /\ "generation" \in s.keys
    /\ s.generation # current_generation

ChunkEvents(s) ==
    IF ChunkDue(s)
    THEN <<Event("chunk", Len(s.generation), "",
                 sanitize_html(SliceFrom(s.generation, Len(current_generation))))>>
    ELSE <<>>

\* ------------------------------------------------------------ registry

\* Provider names, as character sequences.
Names == { <<"q">>, <<"m">> }

\* Classes handed to register; InvalidProvider does not inherit
\* BaseLlmModel.
ProviderClasses == {"QwenProvider", "MockProvider", "InvalidProvider"}

\* issubclass accepted every class.
IsSubclassAny(c) == TRUE

\* issubclass(provider_class, BaseLlmModel)
IsSubclass(c) == c \in {"QwenProvider", "MockProvider"}

\* The keyword arguments of a call, as its items in the order written: no
\* argument, or the items a and b in either order.
KwargsCalls == { <<>>, <<"a", "b">>, <<"b", "a">> }

\* The keyword arguments as a dict: equal whatever the order written.
KwargsDict(kw) == {kw[i] : i \in DOMAIN kw}

ItemRank(x) == CASE x = "a" -> 1 [] x = "b" -> 2

RECURSIVE InsertItem(_, _)
InsertItem(x, q) ==
    IF q = <<>> THEN <<x>>
    ELSE IF ItemRank(x) <= ItemRank(Head(q)) THEN <<x>> \o q
    ELSE <<Head(q)>> \o InsertItem(x, Tail(q))

\* sorted(kwargs.items())
RECURSIVE SortedItems(_)
SortedItems(kw) ==
    IF kw = <<>> THEN <<>> ELSE InsertItem(Head(kw), SortedItems(Tail(kw)))

\* The cache key was built from the items in the order written.
CacheKeyUnsorted(name, kw) == name \o <<":", "[">> \o kw \o <<"]">>

\* f"{name}:{str(sorted(kwargs.items()))}"
CacheKey(name, kw) == name \o <<":", "[">> \o SortedItems(kw) \o <<"]">>

\* del d[k] if k is a key of d.
DropKey(d, k) == [x \in DOMAIN d \ {k} |-> d[x]]

\* d[k] = v
SetKey(d, k, v) == [x \in DOMAIN d \cup {k} |-> IF x = k THEN v ELSE d[x]]

NoMemo == [x \in Names \X {KwargsDict(kw) : kw \in KwargsCalls} |-> 0]

\* provider_class(**kwargs): the id-th object constructed, of that class.
Instance(id, class) == [id |-> id, class |-> class]

Call(op, name, class, cache, kw, result, inst, fresh) ==
    [op |-> op, name |-> name, class |-> class, cache |-> cache, kw |-> kw,
     result |-> result, inst |-> inst, fresh |-> fresh]

\* ---------------------------------------------------------------- Init

Init ==
    /\ checkpoint \in {EmptyState, EarlierRun}
    /\ history = IF checkpoint = EmptyState THEN <<>> ELSE EarlierHistory
    /\ caller = "none"
    /\ node = "idle"
    /\ st = checkpoint
    /\ hist = <<>>
    /\ loop_step0 = 0
    /\ failed = ""
    /\ router_resp = ""
    /\ doc_resps = <<>>
    /\ gen_resps = NoResps
    /\ pending = FALSE
    /\ held_docs = <<>>
    /\ req = NoReq
    /\ events = <<>>
    /\ current_generation = <<>>
    /\ documents_sent = FALSE
    /\ apc = "idle"
    /\ suspended = FALSE
    /\ providers = SetKey(<<>>, <<"q">>, "QwenProvider")
    /\ instances = <<>>
    /\ issued = 0
    /\ memo = NoMemo
    /\ last = Call("", <<>>, "", FALSE, <<>>, "", 0, FALSE)

\* No call has been made yet.
Quiet == caller = "none"

\* --------------------------------------------------------- graph actions

\* The run begins with max_retries m in its input; the checkpointer
\* supplies the channel values of the thread's last checkpoint.
BeginRun(m) ==
    /\ st' = ApplyInput(checkpoint, m)
    /\ hist' = <<>>
    /\ loop_step0' = checkpoint.loop_step
    /\ failed' = ""
    /\ router_resp' = ""
    /\ doc_resps' = <<>>
    /\ gen_resps' = NoResps
    /\ node' = "START"
    /\ pending' = FALSE
    /\ suspended' = FALSE
    /\ UNCHANGED <<checkpoint, history>>
    /\ UNCHANGED regVars
    /\ held_docs' = <<>>

\* GraphMain.stream(user_inputs, config): max_retries is 3.
Stream ==
    /\ Quiet
    /\ caller' = "main"
    /\ BeginRun(StreamMaxRetries)
    /\ req' = NoReq /\ events' = <<>> /\ current_generation' = <<>>
    /\ documents_sent' = FALSE /\ apc' = "idle"

\* The compiled graph streamed with a caller-built input state.
GraphStream(m) ==
    /\ Quiet
    /\ caller' = "graph"
    /\ BeginRun(m)
    /\ req' = NoReq /\ events' = <<>> /\ current_generation' = <<>>
    /\ documents_sent' = FALSE /\ apc' = "idle"

\* A superstep ended and its state was checkpointed but not streamed.
EmitNothing(s, next) ==
    /\ st' = s
    /\ checkpoint' = s
    /\ history' = PutCheckpoint(history, s, node)
    /\ node' = next
    /\ pending' = FALSE
    /\ suspended' = FALSE
    /\ UNCHANGED failed

\* A superstep ended: checkpoint the state and emit it as a snapshot.
Emit(s, next) ==
    /\ st' = s
    /\ checkpoint' = s
    /\ history' = PutCheckpoint(history, s, node)
    /\ node' = next
    /\ pending' = TRUE
    /\ suspended' = FALSE
    /\ UNCHANGED failed

\* The handlers of the nodes log and re-raise, but the run goes on to END.
RaiseSwallowed ==
    /\ node' = "END"
    /\ failed' = node
    /\ suspended' = FALSE
    /\ UNCHANGED <<st, checkpoint, history, pending, hist>>

\* A node raised (its handler logs and re-raises): the exception leaves the
\* stream iterator, and no write of the node is applied.
Raise ==
    /\ node' = "raised"
    /\ failed' = node
    /\ suspended' = FALSE
    /\ UNCHANGED <<st, checkpoint, history, pending, hist>>

\* The checkpointer's write at the end of a superstep raised (the store is
\* unreachable).  Nothing in GraphMain catches it: the exception leaves the
\* stream iterator like a node's exception, and the superstep's state is
\* neither stored nor emitted.
CheckpointWriteFails ==
    /\ node \in {"START", "retrieve", "grade_documents", "generate", "websearch"}
    /\ ~pending
    /\ node' = "raised"
    /\ failed' = "checkpoint"
    /\ suspended' = FALSE
    /\ router_resp' = "" /\ doc_resps' = <<>>
    /\ UNCHANGED <<st, checkpoint, history, pending, hist, loop_step0,
                   gen_resps, caller>>
    /\ UNCHANGED adapterVars
    /\ UNCHANGED regVars
    /\ UNCHANGED held_docs

\* A second call of GraphMain.stream with the same config (thread_id) is
\* in progress in another process and its first superstep is checkpointed.
\* The checkpointer takes no lock per thread and neither does GraphMain:
\* the write goes to the thread as it is.  (One such write per behaviour.)
OtherRunCheckpoint ==
    /\ caller = "main"
    /\ node \in {"START", "retrieve", "grade_documents", "generate", "websearch"}
    /\ \A i \in DOMAIN history : history[i].run # "other"
    /\ history' = Append(history, [step |-> Len(history) + 1,
                                    loop_step |-> checkpoint.loop_step,
                                    writer |-> "START", run |-> "other"])
    /\ checkpoint' = ApplyInput(checkpoint, StreamMaxRetries)
    /\ UNCHANGED <<node, st, hist, loop_step0, failed, router_resp, doc_resps,
                   gen_resps, caller, pending, suspended>>
    /\ UNCHANGED adapterVars
    /\ UNCHANGED regVars
    /\ UNCHANGED held_docs

\* Conditional entry point: route_question, then the input state is emitted.
RouteQuestion(resp) ==
    /\ node = "START" /\ ~pending
    /\ Emit(st, IF RouteQuestionLabel(resp) = "websearch"
                THEN "websearch" ELSE "retrieve")
    /\ router_resp' = resp
    /\ UNCHANGED <<hist, loop_step0, doc_resps, gen_resps, caller>>
    /\ UNCHANGED adapterVars
    /\ UNCHANGED regVars
    /\ UNCHANGED held_docs

Retrieve(docs, fails) ==
    /\ node = "retrieve" /\ ~pending
    /\ IF fails THEN Raise
       ELSE /\ Emit(RetrieveWrite(st, docs), "grade_documents")
            /\ UNCHANGED hist
    /\ router_resp' = ""
    /\ UNCHANGED <<loop_step0, doc_resps, gen_resps, caller>>
    /\ UNCHANGED adapterVars
    /\ UNCHANGED regVars
    /\ UNCHANGED held_docs

\* grade_documents, then decide_to_generate on the merged state.
GradeDocuments(resps, fails) ==
    /\ node = "grade_documents" /\ ~pending
    /\ IF fails THEN Raise
       ELSE LET s == GradeDocumentsWrite(st, resps)
            IN /\ Emit(s, DecideToGenerate(s))
               /\ UNCHANGED hist
    /\ doc_resps' = IF fails THEN <<>> ELSE resps
    /\ UNCHANGED <<loop_step0, router_resp, gen_resps, caller>>
    /\ UNCHANGED adapterVars
    /\ UNCHANGED regVars
    /\ UNCHANGED held_docs

\* generate, then grade_generation on the merged state.
Generate(text, h, a, fails) ==
    /\ node = "generate" /\ ~pending
    /\ Len(hist) < MaxGens
    /\ IF fails THEN Raise
       ELSE LET s == GenerateWrite(st, text)
                label == GradeGeneration(h, a, s.loop_step, s.max_retries)
            IN /\ Emit(s, AfterGenerate(label))
               /\ hist' = Append(hist, [grade |-> HallucinationGrade(h),
                                        label |-> label,
                                        delta |-> st.loop_step + 1])
    /\ doc_resps' = <<>>
    /\ gen_resps' = IF fails THEN NoResps ELSE [h |-> h, a |-> a]
    /\ UNCHANGED <<loop_step0, router_resp, caller>>
    /\ UNCHANGED adapterVars
    /\ UNCHANGED regVars
    /\ UNCHANGED held_docs

WebSearch(fails) ==
    /\ node = "websearch" /\ ~pending
    /\ IF fails THEN Raise
       ELSE /\ Emit(WebSearchWrite(st), "generate")
            /\ UNCHANGED hist
    /\ router_resp' = "" /\ doc_resps' = <<>>
    /\ UNCHANGED <<loop_step0, gen_resps, caller>>
    /\ UNCHANGED adapterVars
    /\ UNCHANGED regVars
    /\ held_docs' = IF fails THEN held_docs ELSE WebSearchAlias(st, held_docs)

\* The loop of the __main__ block takes the next snapshot.
DirectConsume ==
    /\ caller \in {"main", "graph"}
    /\ pending
    /\ pending' = FALSE
    /\ gen_resps' = NoResps
    /\ UNCHANGED <<checkpoint, history, node, st, hist, loop_step0, failed,
                   router_resp, doc_resps, caller, suspended>>
    /\ UNCHANGED adapterVars
    /\ UNCHANGED regVars
    /\ held_docs' = st.documents

\* ------------------------------------------------------- adapter actions

\* process_graph_events up to its first yield.
AdapterStart(r) ==
    /\ Quiet
    /\ RequestAccepted(r)
    /\ caller' = "api"
    /\ req' = [r EXCEPT !.query = ValidateQuery(r.query)]
    /\ events' = <<Event("start", 0, "", ValidateQuery(r.query))>>
    /\ current_generation' = <<>>
    /\ documents_sent' = FALSE
    /\ apc' = "call"
    /\ suspended' = TRUE
    /\ node' = "idle" /\ hist' = <<>> /\ pending' = FALSE
    /\ router_resp' = "" /\ doc_resps' = <<>> /\ gen_resps' = NoResps
    /\ UNCHANGED <<checkpoint, history, st, loop_step0, failed>>
    /\ UNCHANGED regVars
    /\ held_docs' = <<>>

\* ChatRequest raises a validation error: the request is answered without
\* process_graph_events being called.
RejectRequest(r) ==
    /\ Quiet
    /\ ~RequestAccepted(r)
    /\ caller' = "rejected"
    /\ req' = r
    /\ UNCHANGED <<graphVars, pending, events, current_generation,
                   documents_sent, apc, suspended>>
    /\ UNCHANGED regVars

\* graph_main.stream(query) with GraphMain.stream(self, user_inputs, config):
\* TypeError, caught at chat.py:269.
StreamCallTypeError ==
    /\ apc = "call"
    /\ events' = events \o ErrorEvents
    /\ apc' = "closed"
    /\ suspended' = FALSE
    /\ UNCHANGED <<req, current_generation, documents_sent>>
    /\ UNCHANGED <<graphVars, caller, pending>>
    /\ UNCHANGED regVars

\* graph_main.stream(query) under the one-argument interface: the run
\* starts with the inputs GraphMain.stream builds.
StreamCallOneArg ==
    /\ apc = "call"
    /\ apc' = "iter"
    /\ BeginRun(StreamMaxRetries)
    /\ UNCHANGED <<req, events, current_generation, documents_sent>>
    /\ UNCHANGED caller

\* One iteration of the for loop.
AdapterOnSnapshot ==
    /\ apc = "iter" /\ pending
    /\ pending' = FALSE
    /\ gen_resps' = NoResps
    /\ IF DocumentsBlockRaises(st)
       THEN /\ events' = events \o WorkflowEvents(st) \o ErrorEvents
            /\ apc' = "closed"
            /\ node' = "abandoned"
            /\ suspended' = FALSE
            /\ UNCHANGED <<current_generation, documents_sent>>
       ELSE /\ events' = events \o WorkflowEvents(st) \o ChunkEvents(st)
            /\ suspended' = (WorkflowEvents(st) \o ChunkEvents(st) # <<>>)
            /\ current_generation' =
                   IF ChunkDue(st) THEN st.generation ELSE current_generation
            /\ UNCHANGED <<documents_sent, apc, node>>
    /\ UNCHANGED <<checkpoint, history, st, hist, loop_step0, failed,
                   router_resp, doc_resps, caller, req>>
    /\ UNCHANGED regVars
    /\ held_docs' = st.documents

\* The iterator is exhausted: the done event.
AdapterOnEnd ==
    /\ apc = "iter" /\ ~pending /\ node = "END"
    /\ events' = Append(events, Event("done", 0, "", current_generation))
    /\ apc' = "closed"
    /\ suspended' = FALSE
    /\ UNCHANGED <<req, current_generation, documents_sent>>
    /\ UNCHANGED <<graphVars, caller, pending>>
    /\ UNCHANGED regVars

\* The iterator raised: the error event.
AdapterOnRaise ==
    /\ apc = "iter" /\ ~pending /\ node = "raised"
    /\ events' = events \o ErrorEvents
    /\ apc' = "closed"
    /\ suspended' = FALSE
    /\ UNCHANGED <<req, current_generation, documents_sent>>
    /\ UNCHANGED <<graphVars, caller, pending>>
    /\ UNCHANGED regVars

\* The handler caught the close as well and yielded its error event.
ConsumerCloseCaught ==
    /\ suspended
    /\ apc' = "cancelled"
    /\ suspended' = FALSE
    /\ node' = IF node = "idle" THEN "idle" ELSE "abandoned"
    /\ pending' = FALSE
    /\ events' = events \o ErrorEvents
    /\ UNCHANGED <<checkpoint, history, st, hist, loop_step0, failed,
                   router_resp, doc_resps, gen_resps, caller>>
    /\ UNCHANGED <<req, current_generation, documents_sent>>
    /\ UNCHANGED regVars
    /\ UNCHANGED held_docs

\* The consumer drops the stream.  The generator is closed where it is
\* suspended: GeneratorExit (or CancelledError) is raised at that yield,
\* and neither is an Exception, so the handler at chat.py:269 does not run.
\* The iterator of graph_main.stream is dropped with the generator.
ConsumerClose ==
    /\ suspended
    /\ apc' = "cancelled"
    /\ suspended' = FALSE
    /\ node' = IF node = "idle" THEN "idle" ELSE "abandoned"
    /\ pending' = FALSE
    /\ UNCHANGED <<checkpoint, history, st, hist, loop_step0, failed,
                   router_resp, doc_resps, gen_resps, caller>>
    /\ UNCHANGED <<req, events, current_generation, documents_sent>>
    /\ UNCHANGED regVars
    /\ UNCHANGED held_docs

\* ------------------------------------------------------ registry actions

mainVars == <<graphVars, adapterVars, caller, pending, suspended>>

\* LLMRegistry.register(name, provider_class)
Register(name, class) ==
    /\ IF ~IsSubclass(class)
       THEN /\ last' = Call("register", name, class, FALSE, <<>>, "TypeError", 0, FALSE)
            /\ UNCHANGED providers
       ELSE /\ providers' = SetKey(providers, name, class)
            /\ last' = Call("register", name, class, FALSE, <<>>, "ok", 0, FALSE)
    /\ UNCHANGED <<instances, issued, memo>>
    /\ UNCHANGED mainVars

\* LLMRegistry.unregister(name): the name leaves _providers, and the key
\* name (not a cache key of create) leaves _instances.
Unregister(name) ==
    /\ providers' = DropKey(providers, name)
    /\ instances' = DropKey(instances, name)
    /\ last' = Call("unregister", name, "", FALSE, <<>>, "ok", 0, FALSE)
    /\ UNCHANGED <<issued, memo>>
    /\ UNCHANGED mainVars

\* LLMRegistry.create(name, cache, **kwargs); raises: the constructor of
\* the provider class raises.
Create(name, cache, kw, raises) ==
    /\ IF name \notin DOMAIN providers
       THEN /\ last' = Call("create", name, "", cache, kw, "KeyError", 0, FALSE)
            /\ UNCHANGED <<instances, issued, memo>>
       ELSE IF cache /\ CacheKey(name, kw) \in DOMAIN instances
       THEN /\ last' = Call("create", name, instances[CacheKey(name, kw)].class,
                            cache, kw, "instance",
                            instances[CacheKey(name, kw)].id, FALSE)
            /\ UNCHANGED <<instances, issued, memo>>
       ELSE IF raises
       THEN /\ last' = Call("create", name, "", cache, kw, "Exception", 0, FALSE)
            /\ UNCHANGED <<instances, issued, memo>>
       ELSE /\ issued < MaxInstances
            /\ issued' = issued + 1
            /\ instances' = IF cache
                            THEN SetKey(instances, CacheKey(name, kw),
                                        Instance(issued + 1, providers[name]))
                            ELSE instances
            /\ memo' = IF cache /\ memo[<<name, KwargsDict(kw)>>] = 0
                       THEN [memo EXCEPT ![<<name, KwargsDict(kw)>>] = issued + 1]
                       ELSE memo
            /\ last' = Call("create", name, providers[name], cache, kw,
                            "instance", issued + 1, TRUE)
    /\ UNCHANGED providers
    /\ UNCHANGED mainVars

\* LLMRegistry.clear_cache()
ClearCache ==
    /\ instances' = <<>>
    /\ memo' = NoMemo
    /\ last' = Call("clear_cache", <<>>, "", FALSE, <<>>, "ok", 0, FALSE)
    /\ UNCHANGED <<providers, issued>>
    /\ UNCHANGED mainVars

\* ------------------------------------------------------- specification

Next ==
    \/ Stream
    \/ \E m \in 1..MaxRetriesBound : GraphStream(m)
    \/ \E resp \in RouterResponses : RouteQuestion(resp)
    \/ \E docs \in RetrieverResults, fails \in BOOLEAN : Retrieve(docs, fails)
    \/ \E resps \in [1..Len(st.documents) -> DocGraderResponses],
          fails \in BOOLEAN : GradeDocuments(resps, fails)
    \/ \E text \in Generations, h \in GraderResponses, fails \in BOOLEAN :
           \E a \in IF Lower(h) = "yes" THEN GraderResponses ELSE {"unasked"} :
               Generate(text, h, a, fails)
    \/ \E fails \in BOOLEAN : WebSearch(fails)
    \/ CheckpointWriteFails
    \/ OtherRunCheckpoint
    \/ DirectConsume
    \/ \E r \in Requests : AdapterStart(r)
    \/ \E r \in Requests : RejectRequest(r)
    \/ StreamCallTypeError
    \/ StreamCallOneArg
    \/ AdapterOnSnapshot
    \/ AdapterOnEnd
    \/ AdapterOnRaise
    \/ ConsumerClose

Spec == Init /\ [][Next]_vars

\* The calls of LLMRegistry, in any order.
RegNext ==
    \/ \E name \in Names, class \in ProviderClasses : Register(name, class)
    \/ \E name \in Names : Unregister(name)
    \/ \E name \in Names, cache \in BOOLEAN, kw \in KwargsCalls, raises \in BOOLEAN :
           Create(name, cache, kw, raises)
    \/ ClearCache

RegistrySpec == Init /\ [][RegNext]_vars

\* The executor keeps stepping while its consumer keeps iterating.
LiveSpec == Init /\ [][Next]_vars /\ WF_vars(Next)

TypeOK ==
    /\ caller \in {"none", "main", "graph", "api", "rejected"}
    /\ node \in {"idle", "START", "retrieve", "grade_documents", "generate",
                 "websearch", "END", "raised", "abandoned"}
    /\ pending \in BOOLEAN
    /\ documents_sent \in BOOLEAN
    /\ apc \in {"idle", "call", "iter", "closed", "cancelled"}
    /\ suspended \in BOOLEAN
    /\ st.loop_step \in Nat
    /\ failed \in {"", "retrieve", "grade_documents", "generate", "websearch",
                    "checkpoint"}

\* ---------------------------------------------------------------- claims

InRun == node \in {"START", "retrieve", "grade_documents", "generate",
                   "websearch", "END", "raised", "abandoned"}

Kinds(evs) == [i \in DOMAIN evs |-> evs[i].kind]

TerminalEvents == {i \in DOMAIN events : events[i].kind \in {"done", "error"}}

\* The cap of the Generate guard is never the reason a run stops.
CapNotReached == node = "generate" => Len(hist) < MaxGens

\* C1: in every run, whatever the graders answer, generate executes at most
\* max_retries + 1 times, max_retries being the value in the run's state.
C1_GenerateBound == InRun => Len(hist) <= st.max_retries + 1

\* A run that used its whole budget: max_retries + 1 generations.
C1_Witness ==
    /\ node = "END"
    /\ Len(hist) = st.max_retries + 1
    /\ hist[Len(hist)].label = "max retries"

\* C2: when every call returns and the consumer keeps iterating, a run that
\* started reaches a terminal edge (or is ended by an exception); there is
\* no endless cycle generate -> generate or generate -> websearch -> generate.
C2_Terminates == (node = "START") ~> (node \in {"END", "raised", "abandoned"})

\* A run that went round both cycles and then took a terminal edge.
C2_Witness ==
    /\ node = "END"
    /\ \E i, j \in DOMAIN hist :
          hist[i].label = "not supported" /\ hist[j].label = "not useful"

\* C3: a stream of process_graph_events that has ended holds exactly one
\* event of kind done or error, as its last event; a stream that has not
\* ended holds none.
C3_OneTerminalEvent ==
    /\ apc = "closed" =>
          /\ Cardinality(TerminalEvents) = 1
          /\ events[Len(events)].kind \in {"done", "error"}
    /\ apc # "closed" => TerminalEvents = {}

\* A stream that ended with done after a run with a retry.
C3_Witness ==
    /\ apc = "closed"
    /\ events[Len(events)].kind = "done"
    /\ Len(hist) >= 2

\* A stream that ended with error because a node raised during the run.
C3_WitnessError ==
    /\ apc = "closed"
    /\ events[Len(events)].kind = "error"
    /\ node = "raised"

\* C4: whenever generate is about to execute, documents is present and
\* non-empty: after websearch at the entry, after retrieve and
\* grade_documents, and on every retry.
C4_DocumentsNonEmpty ==
    node = "generate" => ("documents" \in st.keys /\ st.documents # <<>>)

\* generate is about to run after the retriever returned no document:
\* grade_documents asked for the web search, which supplied the document.
C4_Witness ==
    /\ node = "generate"
    /\ loop_step0 = 0
    /\ st.web_search = "yes"
    /\ st.documents = <<WebDoc>>

\* C5: in a run that began with loop_step 0, every execution of generate
\* advances loop_step by exactly one, so that in every snapshot loop_step
\* is the number of generate executions completed so far.
C5_LoopStepCountsGenerations ==
    /\ [][(loop_step0 = 0 /\ Len(hist') = Len(hist) + 1) =>
              st'.loop_step = st.loop_step + 1]_vars
    /\ []((InRun /\ loop_step0 = 0) => st.loop_step = Len(hist))

AllUngrounded == \A i \in DOMAIN hist : hist[i].grade = "no"

\* C6: a run (begun with loop_step 0) in which the hallucination grader
\* rejects every generation ends after exactly max_retries + 1 executions
\* of generate: "not supported" after each of the first max_retries, and
\* "max retries" after the last.
C6_AllUngroundedUsesBudget ==
    (node = "END" /\ loop_step0 = 0 /\ hist # <<>> /\ AllUngrounded) =>
        /\ Len(hist) = st.max_retries + 1
        /\ \A i \in 1..(Len(hist) - 1) : hist[i].label = "not supported"
        /\ hist[Len(hist)].label = "max retries"

C8_RequestBudget ==
    (caller = "api" /\ InRun /\ loop_step0 = 0) =>
        /\ st.max_retries = req.max_retries
        /\ Len(hist) <= req.max_retries + 1

IsPrefix(p, g) == Len(p) <= Len(g) /\ SubSeq(g, 1, Len(p)) = p

\* The text of g that is new after p was emitted: the rest of g when g
\* extends p, the whole of g otherwise.
NewText(p, g) == IF IsPrefix(p, g) THEN SubSeq(g, Len(p) + 1, Len(g)) ELSE g

\* C9: (in a run that began without earlier checkpoint) every chunk event
\* carries (escaped) the text that is new relative to
\* the generation emitted before, and the whole new generation when that
\* one does not extend the previous one; hence the chunks since the last
\* full one, concatenated, are the final generation.
C9_ChunkIsNewText ==
    [][(/\ loop_step0 = 0
        /\ Len(events') > Len(events)
        /\ events'[Len(events')].kind = "chunk") =>
          events'[Len(events')].text =
              sanitize_html(NewText(current_generation, current_generation'))]_vars

\* C10: the ended stream of a request with sources and workflow enabled,
\* whose run (begun with loop_step 0) went through retrieve with three
\* documents, all kept, and whose generations were all found useful, is
\* start, workflow_step(0), documents(3), chunk, workflow_step(1), done.
C10_HappyPathEvents ==
    (/\ apc = "closed" /\ caller = "api"
     /\ req.include_sources /\ req.include_workflow
     /\ loop_step0 = 0
     /\ st.documents = <<1, 2, 3>>
     /\ node # "raised"
     /\ \A i \in DOMAIN hist : hist[i].label = "useful") =>
        /\ Kinds(events) = <<"start", "workflow_step", "documents", "chunk",
                             "workflow_step", "done">>
        /\ events[2].n = 0
        /\ events[3].n = 3
        /\ events[4].text = sanitize_html(st.generation)
        /\ events[5].n = 1

HasKind(k) == \E i \in DOMAIN events : events[i].kind = k

\* C11: a failure of the retriever, of the web-search tool or of the
\* language-model call of generate ends the run: no node executes after it
\* and no state is written; the only thing that follows is the adapter's
\* error event, which closes the stream, and the stream holds no done event.
C11_FailureIsFatal ==
    /\ [](failed # "" =>
            /\ node = "raised"
            /\ caller = "api" =>
                  /\ ~HasKind("done")
                  /\ apc = "closed" => events[Len(events)].kind = "error")
    /\ [][failed # "" =>
            /\ UNCHANGED <<node, st, hist, checkpoint, failed>>
            /\ caller = "api" /\ events' = events \o ErrorEvents
            /\ apc = "iter" /\ apc' = "closed"]_vars

\* The web-search tool failed after a first generation was found not
\* useful, and the stream of the request ended with the error event.
C11_Witness ==
    /\ failed = "websearch"
    /\ Len(hist) >= 1
    /\ apc = "closed"
    /\ events[Len(events)].kind = "error"

\* The retriever failed.
C11_WitnessRetrieve ==
    /\ failed = "retrieve"
    /\ apc = "closed"
    /\ events[Len(events)].kind = "error"

\* The language-model call of generate failed.
C11_WitnessGenerate ==
    /\ failed = "generate"
    /\ apc = "closed"
    /\ events[Len(events)].kind = "error"

LastLabel == IF hist = <<>> THEN "" ELSE hist[Len(hist)].label

\* C12: when grade_generation answers "max retries" the run takes the
\* terminal edge and no node fails; the stream of the request (unless the
\* consumer dropped it) holds no error event, and once it has ended its
\* last event is done, carrying the generation written by the last
\* execution of generate.
C12_BudgetExhaustedIsGraceful ==
    (InRun /\ LastLabel = "max retries" /\ apc # "cancelled") =>
        /\ node = "END"
        /\ failed = ""
        /\ caller = "api" =>
              /\ ~HasKind("error")
              /\ apc = "closed" =>
                    /\ events[Len(events)].kind = "done"
                    /\ events[Len(events)].text = st.generation

\* A request whose run used up its budget on ungrounded generations and
\* whose stream ended.
C12_Witness ==
    /\ caller = "api" /\ apc = "closed"
    /\ LastLabel = "max retries"
    /\ Len(hist) >= 2
    /\ hist[Len(hist)].grade = "no"
    /\ events[Len(events)].kind = "done"

\* C13 as stated: the run starts at websearch only when the datasource the
\* router answered is the string websearch, and at retrieve for every other
\* response.
C13_RouteAsStated ==
    [][(node = "START" /\ node' \notin {"START", "raised"}) =>
          node' = IF router_resp' = "websearch" THEN "websearch" ELSE "retrieve"]_vars

\* C13 (amended): route_question compares the datasource without regard to
\* letter case.  The run starts at websearch exactly when the router
\* answered JSON whose datasource, lower-cased, is websearch; when the call
\* fails, the answer is not JSON, the key is missing or not a string, or the
\* datasource is anything else, the run starts at retrieve.  (A routing
\* step is a step that leaves START without an exception.)
C13_RouteFallback ==
    /\ [][(node = "START" /\ node' \notin {"START", "raised"}) =>
            /\ router_resp' \in RouterResponses
            /\ node' = IF router_resp' \in {"websearch", "WebSearch"}
                       THEN "websearch" ELSE "retrieve"]_vars
    /\ [](router_resp \in {"raise", "badjson", "nokey", "nonstr", "vectorstore"}
              => node \in {"retrieve", "abandoned"})

\* The router answered text that is not JSON, and retrieve is the node
\* about to run.
C13_Witness ==
    /\ router_resp = "badjson"
    /\ node = "retrieve"

\* C14: when grade_documents leaves no document (its kept list is empty),
\* the next node is websearch; websearch runs once, so that the first
\* generate finds exactly the one Document of that search; and unless the
\* search or the generation fails (or the consumer's stream has ended),
\* generate does execute.
C14_OneWebSearchBeforeGenerate ==
    /\ [][(node = "grade_documents" /\ st'.documents = <<>>
           /\ node' \notin {"grade_documents", "raised", "abandoned"})
              => node' = "websearch"]_vars
    /\ []((node = "generate" /\ hist = <<>> /\ st.web_search = "yes")
              => st.documents = <<WebDoc>>)
    /\ (node = "websearch" /\ hist = <<>> /\ st.web_search = "yes")
          ~> (hist # <<>> \/ node \in {"raised", "abandoned"})

\* The retriever found nothing, grade_documents asked for the search, and
\* the first generate has run on the one Document of the search.
C14_Witness ==
    /\ Len(hist) = 1
    /\ failed = ""
    /\ st.web_search = "yes"
    /\ st.documents = <<WebDoc>>

\* The documents whose response is JSON with binary_score yes.
RECURSIVE KeptByScore(_, _)
KeptByScore(docs, resps) ==
    IF docs = <<>> THEN <<>>
    ELSE IF Head(resps) = "yes"
         THEN <<Head(docs)>> \o KeptByScore(Tail(docs), Tail(resps))
         ELSE KeptByScore(Tail(docs), Tail(resps))

\* C15: grade_documents writes as documents exactly the documents whose
\* grader response has binary_score yes, and writes web_search yes when
\* that list is empty and no otherwise.
C15_KeepsDocumentsGradedYes ==
    [][(node = "grade_documents" /\ node' \in {"generate", "websearch"}) =>
          /\ st'.documents = KeptByScore(st.documents, doc_resps')
          /\ st'.web_search =
                 IF KeptByScore(st.documents, doc_resps') = <<>> THEN "yes" ELSE "no"]_vars

\* C16: when a run has ended, by a terminal edge or by a failure, loop_step
\* is at least 1 if generate executed in that run and 0 if it did not; and
\* loop_step changes only when generate executes.
C16_LoopStepAtTerminal ==
    /\ [](node \in {"END", "raised"} =>
            /\ (st.loop_step >= 1) <=> (hist # <<>>)
            /\ hist = <<>> => st.loop_step = 0)
    /\ [][st'.loop_step # st.loop_step => node = "generate"]_vars

Fields == {"documents", "generation", "web_search", "max_retries", "loop_step"}

\* The step wrote at most the channels in written.
WroteOnly(written) ==
    /\ \A f \in Fields \ written : st'[f] = st[f]
    /\ st'.keys \subseteq st.keys \cup written

RECURSIVE SumDeltas(_)
SumDeltas(h) == IF h = <<>> THEN 0 ELSE Head(h).delta + SumDeltas(Tail(h))

C18_SnapshotsInOrder ==
    /\ [][st'.loop_step >= st.loop_step]_vars
    /\ [][(/\ node \in {"START", "retrieve", "grade_documents", "generate", "websearch"}
           /\ node' # node
           /\ node' \notin {"raised", "abandoned"})
              => (~pending /\ pending' /\ checkpoint' = st')]_vars
    /\ [][pending => (st' = st /\ hist' = hist /\ node' \in {node, "abandoned"})]_vars

\* The snapshot of a second generation is about to be taken: loop_step
\* went 0, 1, 3.
C18_Witness ==
    /\ pending
    /\ loop_step0 = 0
    /\ Len(hist) = 2
    /\ st.loop_step = 3

\* C19: once the consumer has dropped the stream nothing happens on it any
\* more: the drop itself adds no event, no event is added afterwards, the
\* run executes no further node, and the stream holds neither done nor
\* error.
C19_NoEventAfterClose ==
    /\ [][apc' = "cancelled" => (events' = events /\ st' = st /\ hist' = hist)]_vars
    /\ [][apc = "cancelled" => apc' = "cancelled"]_vars
    /\ [](apc = "cancelled" => (~HasKind("done") /\ ~HasKind("error")))

\* The consumer dropped the stream at the chunk of a generation that the
\* graders rejected: the retry whose turn it was never ran.
C19_Witness ==
    /\ apc = "cancelled"
    /\ node = "abandoned"
    /\ LastLabel = "not supported"
    /\ events[Len(events)].kind = "chunk"

\* The consumer dropped the stream at the chunk of the last generation:
\* the done event was never emitted.
C19_WitnessBeforeDone ==
    /\ apc = "cancelled"
    /\ LastLabel = "useful"
    /\ events[Len(events)].kind = "chunk"

\* C20: the sequence that get_state_history returns for the thread has
\* ascending step numbers, and in it every checkpoint written by generate
\* has a larger loop_step than the checkpoint before it.
C20_HistoryAscending ==
    LET r == GetStateHistory(history)
    IN /\ \A i, j \in DOMAIN r : i < j => r[i].step < r[j].step
       /\ \A i \in DOMAIN r :
             (i > 1 /\ r[i].writer = "generate") => r[i].loop_step > r[i-1].loop_step

\* C21: a checkpoint write that fails does not end the run: the run goes on
\* to its next node and the stream of the request holds no error event.
C21_CheckpointFailureNotFatal ==
    failed = "checkpoint" => (node # "raised" /\ ~HasKind("error"))

\* C22: no event of a stream carries the character "<" as the user or the
\* model wrote it: the query in start, the text in chunk and the answer in
\* done are escaped.
C22_EventTextsEscaped ==
    \A i \in DOMAIN events :
        \A k \in DOMAIN events[i].text : events[i].text[k] # "<"

\* C23: the question of a request that passed validation, which is the
\* question handed to graph_main.stream, is not empty.
C23_QuestionNonEmpty == caller = "api" => req.query # <<>>

\* C24: the checkpoints of a thread are never a mixture of two runs: no
\* checkpoint of another run lies between two checkpoints of this run.
C24_WritesSerialized ==
    \A i, j, k \in DOMAIN history :
        (i < j /\ j < k /\ history[i].run = "this" /\ history[k].run = "this")
            => history[j].run # "other"

\* A response that yields a verdict: JSON, the verdict being no when the
\* text is not JSON or the key is missing.
Verdicts == {"yes", "no", "nokey", "badjson"}

\* The step is an execution of generate followed by grade_generation.
GenerateStep == Len(hist') = Len(hist) + 1

\* C27: the label of grade_generation is the stated function of the two
\* verdicts, loop_step and max_retries: useful when grounded and the answer
\* verdict is yes; when grounded and the answer verdict is not yes, not
\* useful if loop_step <= max_retries and max retries otherwise; when
\* ungrounded, not supported if loop_step <= max_retries and max retries
\* otherwise.  Once loop_step > max_retries the label is useful or max
\* retries, and the answer grader is asked only after the verdict yes.
C27_LabelFunction ==
    /\ [][(GenerateStep /\ gen_resps'.h \in Verdicts
             /\ gen_resps'.a \in Verdicts \cup {"unasked"}) =>
              hist'[Len(hist')].label =
                  IF gen_resps'.h = "yes"
                  THEN IF gen_resps'.a = "yes" THEN "useful"
                       ELSE IF st'.loop_step <= st'.max_retries THEN "not useful"
                       ELSE "max retries"
                  ELSE IF st'.loop_step <= st'.max_retries THEN "not supported"
                       ELSE "max retries"]_vars
    /\ [][(GenerateStep /\ st'.loop_step > st'.max_retries) =>
              hist'[Len(hist')].label \in {"useful", "max retries"}]_vars
    /\ [][GenerateStep =>
              (gen_resps'.a # "unasked" <=> gen_resps'.h = "yes")]_vars

\* A grounded generation whose answer verdict is no, made when loop_step
\* has passed max_retries: the label is max retries.
C27_Witness ==
    /\ pending
    /\ gen_resps.h = "yes" /\ gen_resps.a = "no"
    /\ st.loop_step > st.max_retries
    /\ LastLabel = "max retries"

\* A grounded generation whose answer verdict is no, made with loop_step
\* equal to max_retries: the label is not useful.
C27_WitnessAtBudget ==
    /\ pending
    /\ gen_resps.h = "yes" /\ gen_resps.a = "no"
    /\ st.loop_step = st.max_retries
    /\ LastLabel = "not useful"

Malformed == {"badjson", "nokey"}

\* C28: when the response of the hallucination grader or of the answer
\* grader is not JSON or lacks binary_score, the label is max retries
\* whatever loop_step and max_retries are, and the run takes the terminal
\* edge: no further generate or web search.
C28_MalformedGraderEndsRun ==
    [][(GenerateStep /\ (gen_resps'.h \in Malformed \/ gen_resps'.a \in Malformed)) =>
          /\ hist'[Len(hist')].label = "max retries"
          /\ node' = "END"]_vars

\* The step is route_question, and the run goes on.
RouteStep == node = "START" /\ node' \notin {"START", "raised"}

\* The step is an execution of grade_documents that completed.
GradeDocumentsStep == node = "grade_documents" /\ node' \in {"generate", "websearch"}

\* C29: a call of a router or grader that raises is handled like an
\* unparseable response of that call in the same state, and does not end
\* the run with an exception: route_question gives the same first node,
\* grade_documents the same decision on the document, grade_generation the
\* same label.
C29_TransportLikeParse ==
    /\ [][(RouteStep /\ router_resp' = "raise") =>
              node' = IF RouteQuestionLabel("badjson") = "websearch"
                      THEN "websearch" ELSE "retrieve"]_vars
    /\ [][GradeDocumentsStep =>
              \A i \in DOMAIN doc_resps' :
                  doc_resps'[i] = "raise" =>
                      ((\E k \in DOMAIN st'.documents : st'.documents[k] = st.documents[i])
                          <=> DocKept("badjson"))]_vars
    /\ [][(GenerateStep /\ gen_resps'.h = "raise") =>
              hist'[Len(hist')].label =
                  GradeGeneration("badjson", "unasked", st'.loop_step, st'.max_retries)]_vars
    /\ [][(GenerateStep /\ gen_resps'.h = "yes" /\ gen_resps'.a = "raise") =>
              hist'[Len(hist')].label =
                  GradeGeneration("yes", "badjson", st'.loop_step, st'.max_retries)]_vars
    /\ [][(\/ RouteStep /\ router_resp' = "raise"
           \/ GradeDocumentsStep
           \/ GenerateStep) => failed' = ""]_vars

CreateReturned ==
    /\ last' # last
    /\ last'.op = "create"
    /\ last'.result = "instance"

C25_WitnessAfterClear ==
    /\ last.op = "create" /\ last.result = "instance" /\ last.cache
    /\ last.fresh
    /\ last.inst = 2 /\ issued = 2
    /\ memo[<<last.name, KwargsDict(last.kw)>>] = 2
    /\ DOMAIN instances = {CacheKey(last.name, last.kw)}

\* C26: create for a name that is not registered raises KeyError, and only
\* then; register with a class that does not inherit BaseLlmModel raises
\* TypeError, and only then; a call that raised either leaves the
\* registered providers and the instance cache as they were.
C26_RejectedCallsChangeNothing ==
    /\ [][(last' # last /\ last'.op = "create") =>
            (last'.result = "KeyError" <=> last'.name \notin DOMAIN providers)]_vars
    /\ [][(last' # last /\ last'.op = "register") =>
            (last'.result = "TypeError" <=> last'.class = "InvalidProvider")]_vars
    /\ [][(last' # last /\ last'.result \in {"KeyError", "TypeError"}) =>
            (providers' = providers /\ instances' = instances)]_vars

\* create raised KeyError for a provider that had been registered and
\* used, then unregistered: its cached instance is still in the cache.
C26_Witness ==
    /\ last.op = "create" /\ last.result = "KeyError"
    /\ last.name \notin DOMAIN providers
    /\ CacheKey(last.name, last.kw) \in DOMAIN instances

\* register raised TypeError for a name that is not registered, while an
\* instance is cached.
C26_WitnessRegister ==
    /\ last.op = "register" /\ last.result = "TypeError"
    /\ last.name \notin DOMAIN providers
    /\ DOMAIN instances # {}

\* p is q with some elements left out.
RECURSIVE IsSubseq(_, _)
IsSubseq(p, q) ==
    IF p = <<>> THEN TRUE
    ELSE IF q = <<>> THEN FALSE
    ELSE IF Head(p) = Head(q) THEN IsSubseq(Tail(p), Tail(q))
    ELSE IsSubseq(p, Tail(q))

\* C31: the documents that grade_documents writes are a subsequence of the
\* documents it received (same relative order, none twice, none added), and
\* retrieve writes the retriever's documents in the retriever's order.
C31_DocumentOrderKept ==
    /\ [][GradeDocumentsStep => IsSubseq(st'.documents, st.documents)]_vars
    /\ [](node = "retrieve" =>
            \A docs \in RetrieverResults : RetrieveWrite(st, docs).documents = docs)
    /\ [][(node = "retrieve" /\ node' = "grade_documents") =>
            st'.documents \in RetrieverResults]_vars

\* grade_documents has run on the three documents of the retriever, on a
\* thread whose earlier run left another document list.
C31_Witness ==
    /\ pending
    /\ node = "generate"
    /\ hist = <<>>
    /\ loop_step0 = 1
    /\ Len(doc_resps) = 3
    /\ st.documents = <<1, 2, 3>>

\* C32: decide_to_generate selects websearch exactly when web_search is
\* yes, and the value it reads was written by the execution of
\* grade_documents before it: yes when that execution kept no document, no
\* otherwise, never the value of an earlier step and never unset.
C32_DecisionReadsFreshFlag ==
    [][GradeDocumentsStep =>
          /\ "web_search" \in st'.keys
          /\ st'.web_search = IF st'.documents = <<>> THEN "yes" ELSE "no"
          /\ node' = IF st'.web_search = "yes" THEN "websearch" ELSE "generate"]_vars

\* On a thread whose earlier run left web_search no, the retriever found
\* nothing: grade_documents wrote yes and websearch is next.
C32_Witness ==
    /\ pending
    /\ node = "websearch"
    /\ checkpoint.web_search = "yes"
    /\ loop_step0 = 1
    /\ hist = <<>>
    /\ st.documents = <<>>

Edges ==
    { <<"START", "retrieve">>, <<"START", "websearch">>,
      <<"retrieve", "grade_documents">>,
      <<"grade_documents", "generate">>, <<"grade_documents", "websearch">>,
      <<"websearch", "generate">>,
      <<"generate", "websearch">>, <<"generate", "END">> }

\* The checkpoints that this run wrote, in order.
ThisRun == SelectSeq(history, LAMBDA r : r.run = "this")

Writers == [i \in DOMAIN ThisRun |-> ThisRun[i].writer]

\* C33: a run moves only from the entry to retrieve or websearch, from
\* retrieve to grade_documents, from grade_documents to generate or
\* websearch, from websearch to generate and from generate to generate,
\* websearch or the end (or it stops where a failure or the consumer ends
\* it); the nodes executed follow these edges too, and retrieve executes at
\* most once in a run.
C33_OnlyTheseEdges ==
    /\ [][(InRun /\ node' # node /\ node' \notin {"raised", "abandoned"}) =>
            <<node, node'>> \in Edges]_vars
    /\ [](\A i \in DOMAIN Writers :
            i > 1 => \/ <<Writers[i-1], Writers[i]>> \in Edges
                     \/ Writers[i-1] = "generate" /\ Writers[i] = "generate")
    /\ [](Cardinality({i \in DOMAIN Writers : Writers[i] = "retrieve"}) <= 1)

\* A run that took every kind of edge but the entry to websearch.
C33_Witness ==
    /\ node = "END"
    /\ Writers = <<"START", "retrieve", "grade_documents", "generate",
                   "websearch", "generate", "generate">>

\* C34: in every state of a run generation is present exactly when
\* generate has executed at least once in that run.
C34_GenerationIffGenerated ==
    InRun => (("generation" \in st.keys) <=> (hist # <<>>))

\* The step is an execution of web_search that completed.
WebSearchStep == node = "websearch" /\ node' = "generate"

\* C36: an execution of web_search appends one Document, whose
\* metadata.source is "web_search", to the end of documents and keeps the
\* documents that were there, in their order; so documents grows by one
\* with every execution.
C36_AppendsOneWebDocument ==
    [][WebSearchStep =>
          /\ Len(st'.documents) = Len(st.documents) + 1
          /\ SubSeq(st'.documents, 1, Len(st.documents)) = st.documents
          /\ MetadataSource(st'.documents[Len(st'.documents)]) = "web_search"]_vars

DocumentsEvents == {i \in DOMAIN events : events[i].kind = "documents"}

\* The adapter takes a snapshot whose documents are not empty, for a
\* request with sources, and has sent no documents event yet.
FirstSnapshotWithDocuments ==
    /\ apc = "iter" /\ pending /\ ~pending' /\ apc' # "cancelled"
    /\ req.include_sources
    /\ DocumentsEvents = {}
    /\ "documents" \in st.keys /\ st.documents # <<>>

\* C37: a stream holds at most one documents event, of at most 5
\* documents; for a request with sources it is emitted at the first
\* snapshot whose documents are not empty, the stream goes on after it,
\* and a stream that has ended after it ends with done.
C37_DocumentsEventOnce ==
    /\ [](Cardinality(DocumentsEvents) <= 1)
    /\ [](\A i \in DocumentsEvents : events[i].n <= 5)
    /\ [][FirstSnapshotWithDocuments =>
            /\ \E i \in DOMAIN events' :
                  i > Len(events) /\ events'[i].kind = "documents"
            /\ apc' = "iter"]_vars
    /\ []((apc = "closed" /\ DocumentsEvents # {} /\ node = "END")
              => events[Len(events)].kind = "done")

\* C38: a run starts from a fresh state, also on a thread that an earlier
\* run used: at its first node loop_step is 0, generation is absent and
\* documents holds nothing.
C38_FreshRunState ==
    node = "START" =>
        /\ st.loop_step = 0
        /\ "generation" \notin st.keys
        /\ st.documents = <<>>

\* C35: a node leaves the state it received as it was: what a snapshot
\* taken before web_search ran shows as documents is the same after
\* web_search has returned (the appended document is in the returned write
\* only), and no other node changes it either.
C35_NodesLeaveSnapshotsAlone ==
    [][(InRun /\ ~pending /\ pending') => held_docs' = held_docs]_vars

\* C39: whatever was registered, unregistered, created and cleared before,
\* an instance that create(name, ...) returns is of the class registered
\* under name at that moment, and unregister(name) leaves no cached
\* instance of that provider.
C39_InstanceOfRegisteredClass ==
    /\ [][CreateReturned => last'.class = providers'[last'.name]]_vars
    /\ [][(last' # last /\ last'.op = "unregister") =>
            \A kw \in KwargsCalls :
                CacheKey(last'.name, kw) \notin DOMAIN instances']_vars

====
